---- MODULE Spec2Model ----
(***************************************************************************)
(* A model of the encryption application's backend:                        *)
(*   - FileManager (backend/file_manager.py): the chunked file pipeline,   *)
(*     its stop flag and the notifications it emits;                       *)
(*   - RsaKeyManager (backend/rsa_key_manager.py): saving, loading and     *)
(*     parsing PEM key material.                                           *)
(* The chunk cipher (backend/chunk_encrypter.py) and the chunk sizes       *)
(* (backend/constants.py) are not part of the sources at hand; they are    *)
(* modelled from the specification, scaled down.                           *)
(***************************************************************************)
EXTENDS Integers, Sequences, FiniteSets, TLC

(***************************************************************************)
(* Bounds of the model.                                                    *)
(***************************************************************************)
MaxLen ==
    3

MaxSessions ==
    2

(***************************************************************************)
(* Size.ENCRYPTION_CHUNK and Size.DECRYPTION_CHUNK (446 and 512 bytes for  *)
(* a 4096-bit key with OAEP/SHA-256), scaled: the plaintext chunk is two   *)
(* bytes, the padding overhead (66 bytes in the program) is two bytes.     *)
(***************************************************************************)
ENCRYPTION_CHUNK ==
    2

OAEP_OVERHEAD ==
    2

DECRYPTION_CHUNK ==
    ENCRYPTION_CHUNK + OAEP_OVERHEAD

Managers == {1, 2}

KeyPairs == {1, 2}

Paths == {"plain", "enc"}

Bytes == {0, 1}

NoFile == [exists |-> FALSE, data |-> <<>>]

File(data) == [exists |-> TRUE, data |-> data]

None == "None"

Contents == UNION {[1..n -> Bytes] : n \in 0..MaxLen}

Min(a, b) == IF a < b THEN a ELSE b

RECURSIVE SumSeq(_)
SumSeq(s) == IF s = <<>> THEN 0 ELSE Head(s) + SumSeq(Tail(s))

RECURSIVE Zeros(_)
Zeros(n) == IF n <= 0 THEN <<>> ELSE <<0>> \o Zeros(n - 1)

VARIABLES
    managers,         \* the FileManager objects that were constructed
    fs,               \* fs[m][p]: the content of file p in m's directory, or NoFile
    stop_flag,        \* FileManager._stop_flag
    chunk_encrypter,  \* FileManager.chunk_encrypter
    pc,               \* where each manager's _process_file stands
    sess,             \* the locals of the running _process_file
    log,              \* the notifications the manager's current session emitted
    hist,             \* what happened in the manager's current session
    budget,           \* the sessions a manager may still start
    lastStop,         \* the managers whose flag the last stop request set
    ioFaults,         \* whether the file system may fail an operation
    keyfs,            \* the PEM files: keyfs[p] is the file at path p
    km,               \* the last RsaKeyManager call: its arguments and outcome
    saved             \* saved[p]: the last save_private_key_to_file call on p

fileVars == <<managers, fs, stop_flag, chunk_encrypter, pc, sess, log, hist,
              budget, lastStop, ioFaults>>

keyVars == <<keyfs, km, saved>>

vars == <<fileVars, keyVars>>

(***************************************************************************)
(* The chunk cipher, ChunkEncrypter (from the specification, 4.2).  A      *)
(* ciphertext block is DECRYPTION_CHUNK bytes: a tag naming the key pair,  *)
(* the length of the plaintext chunk, the chunk, and padding.              *)
(***************************************************************************)
KeyTag(k) == k + 1

ChunkEncrypter(public_key, private_key) ==
    [public_key |-> public_key, private_key |-> private_key]

encrypt_chunk(ce, chunk) ==
    IF Len(chunk) > ENCRYPTION_CHUNK
    THEN [ok |-> FALSE, val |-> <<>>, err |-> "SizeError"]
    ELSE [ok |-> TRUE,
          val |-> <<KeyTag(ce.public_key), Len(chunk)>> \o chunk
                     \o Zeros(DECRYPTION_CHUNK - 2 - Len(chunk)),
          err |-> None]

decrypt_chunk(ce, block) ==
    IF Len(block) # DECRYPTION_CHUNK
    THEN [ok |-> FALSE, val |-> <<>>, err |-> "SizeError"]
    ELSE IF \/ block[1] # KeyTag(ce.private_key)
            \/ block[2] \notin 0..ENCRYPTION_CHUNK
            \/ \E i \in (3 + block[2])..DECRYPTION_CHUNK : block[i] # 0
         THEN [ok |-> FALSE, val |-> <<>>, err |-> "DecryptError"]
         ELSE [ok |-> TRUE, val |-> SubSeq(block, 3, 2 + block[2]), err |-> None]

chunk_handler(name, ce, chunk) ==
    IF name = "encrypt_chunk" THEN encrypt_chunk(ce, chunk)
                              ELSE decrypt_chunk(ce, chunk)

(***************************************************************************)
(* The state after construction: FileManager.__init__ leaves the flag      *)
(* unset; no session runs.                                                 *)
(***************************************************************************)
NoSess ==
    [in |-> "plain", out |-> "plain", handler |-> None, chunk_size |-> 0,
     pos |-> 0, chunk |-> <<>>, processed |-> <<>>,
     infile |-> FALSE, outfile |-> FALSE, exc |-> None]

NoHist ==
    [started |-> FALSE, flagAtStart |-> FALSE, observed |-> FALSE,
     stopPc |-> None, stopAtEnd |-> FALSE, writesAfterStop |-> 0,
     stepError |-> None, closeFailed |-> FALSE, escaped |-> FALSE,
     in |-> "plain", out |-> "plain", handler |-> None, key |-> None,
     input |-> NoFile, written |-> 0, lateProgress |-> FALSE]

InitWith(ms, sessions, contents, faults) ==
    /\ managers = ms
    /\ ioFaults = faults
    /\ \E content \in contents :
          fs = [m \in Managers |->
                  [p \in Paths |-> IF p = "plain" THEN File(content) ELSE NoFile]]
    /\ stop_flag = [m \in Managers |-> FALSE]
    /\ chunk_encrypter = [m \in Managers |-> ChunkEncrypter(None, None)]
    /\ pc = [m \in Managers |-> "idle"]
    /\ sess = [m \in Managers |-> NoSess]
    /\ log = [m \in Managers |-> <<>>]
    /\ hist = [m \in Managers |-> NoHist]
    /\ budget = [m \in Managers |-> IF m \in ms THEN sessions ELSE 0]
    /\ lastStop = {}

(***************************************************************************)
(* signal_manager.stop_process is connected, in FileManager.__init__, to   *)
(* the stop_process_request slot of every manager, with a direct           *)
(* connection: emitting it runs every connected slot in the emitter's      *)
(* thread.  The slot sets the flag and does nothing else.                  *)
(***************************************************************************)
Running(m) ==
    pc[m] \in {"open_in", "open_out", "check", "read", "handle", "write",
               "emit_progress", "emit_completed"}

Connected == managers

stop_process_request(flags, m) == [flags EXCEPT ![m] = TRUE]

RECURSIVE DeliverStop(_, _)
DeliverStop(flags, ms) ==
    IF ms = {} THEN flags
    ELSE LET m == CHOOSE x \in ms : TRUE
         IN  DeliverStop(stop_process_request(flags, m), ms \ {m})

StopProcessEmit ==
    /\ stop_flag' = DeliverStop(stop_flag, Connected)
    /\ LET set == {m \in Managers : ~stop_flag[m] /\ stop_flag'[m]}
       IN  lastStop' = IF set = {} THEN lastStop ELSE set
    /\ hist' = [m \in Managers |->
                  IF Running(m) /\ ~stop_flag[m] /\ stop_flag'[m]
                  THEN [hist[m] EXCEPT
                          !.stopPc = pc[m],
                          !.stopAtEnd = (sess[m].pos = Len(fs[m][sess[m].in].data))]
                  ELSE hist[m]]
    /\ UNCHANGED <<keyVars, ioFaults, managers, fs, chunk_encrypter, pc, sess, log, budget>>

(***************************************************************************)
(* encrypt_file and decrypt_file build the session's cipher and enter      *)
(* _process_file with the direction's handler and chunk size.              *)
(***************************************************************************)
EncryptChunkSize == ENCRYPTION_CHUNK

DecryptChunkSize == DECRYPTION_CHUNK

StartSession(m, i, o, ce, key, handler, size) ==
    /\ m \in managers
    /\ pc[m] = "idle"
    /\ budget[m] > 0
    /\ budget' = [budget EXCEPT ![m] = @ - 1]
    /\ chunk_encrypter' = [chunk_encrypter EXCEPT ![m] = ce]
    /\ sess' = [sess EXCEPT ![m] =
                  [NoSess EXCEPT !.in = i, !.out = o, !.handler = handler,
                                 !.chunk_size = size]]
    /\ log' = [log EXCEPT ![m] = <<>>]
    /\ hist' = [hist EXCEPT ![m] =
                  [NoHist EXCEPT !.started = TRUE,
                                 !.flagAtStart = stop_flag[m],
                                 !.in = i, !.out = o,
                                 !.handler = handler, !.key = key,
                                 !.input = fs[m][i]]]
    /\ pc' = [pc EXCEPT ![m] = "open_in"]
    /\ UNCHANGED <<keyVars, ioFaults, managers, fs, stop_flag, lastStop>>

encrypt_file(m, i, o, public_key) ==
    StartSession(m, i, o, ChunkEncrypter(public_key, None), public_key,
                 "encrypt_chunk", EncryptChunkSize)

decrypt_file(m, i, o, private_key) ==
    StartSession(m, i, o, ChunkEncrypter(None, private_key), private_key,
                 "decrypt_chunk", DecryptChunkSize)

(***************************************************************************)
(* _process_file, one step at a time.  An exception raised inside the      *)
(* with block first leaves the block (closing the files that are open)     *)
(* and then reaches the except clause.                                     *)
(***************************************************************************)
Raise(m, e) ==
    /\ sess' = [sess EXCEPT ![m].exc = e]
    /\ pc' = [pc EXCEPT ![m] =
                IF sess[m].infile \/ sess[m].outfile THEN "exit_with" ELSE "except"]
    /\ hist' = [hist EXCEPT ![m].stepError = e]

OpenIn(m) ==
    /\ pc[m] = "open_in"
    /\ \/ /\ fs[m][sess[m].in].exists
          /\ sess' = [sess EXCEPT ![m].infile = TRUE, ![m].pos = 0]
          /\ pc' = [pc EXCEPT ![m] = "open_out"]
          /\ UNCHANGED hist
       \/ /\ ~fs[m][sess[m].in].exists
          /\ Raise(m, "FileNotFoundError")
       \/ /\ ioFaults
          /\ fs[m][sess[m].in].exists
          /\ Raise(m, "PermissionError: input")
    /\ UNCHANGED <<keyVars, ioFaults, managers, fs, stop_flag, chunk_encrypter, log, budget, lastStop>>

OpenOut(m) ==
    /\ pc[m] = "open_out"
    /\ \/ /\ fs' = [fs EXCEPT ![m][sess[m].out] = File(<<>>)]
          /\ sess' = [sess EXCEPT ![m].outfile = TRUE]
          /\ pc' = [pc EXCEPT ![m] = "check"]
          /\ UNCHANGED hist
       \/ /\ ioFaults
          /\ Raise(m, "PermissionError: output")
          /\ UNCHANGED fs
    /\ UNCHANGED <<keyVars, ioFaults, managers, stop_flag, chunk_encrypter, log, budget, lastStop>>

StopObservedNever(m) == FALSE

StopObserved(m) == stop_flag[m]

Check(m) ==
    /\ pc[m] = "check"
    /\ IF StopObserved(m)
       THEN /\ hist' = [hist EXCEPT ![m].observed = TRUE]
            /\ pc' = [pc EXCEPT ![m] = "exit_with"]
       ELSE /\ pc' = [pc EXCEPT ![m] = "read"]
            /\ UNCHANGED hist
    /\ UNCHANGED <<keyVars, ioFaults, managers, fs, stop_flag, chunk_encrypter, sess, log, budget,
                   lastStop>>

ReadChunk(data, pos, size) == SubSeq(data, pos + 1, Min(pos + size, Len(data)))

EndOfFileOnShortRead(chunk) == Len(chunk) < ENCRYPTION_CHUNK

EndOfFile(chunk) == chunk = <<>>

Read(m) ==
    /\ pc[m] = "read"
    /\ \/ LET chunk == ReadChunk(fs[m][sess[m].in].data, sess[m].pos, sess[m].chunk_size)
          IN  /\ sess' = [sess EXCEPT ![m].chunk = chunk,
                                      ![m].pos = @ + Len(chunk)]
              /\ pc' = [pc EXCEPT ![m] =
                          IF EndOfFile(chunk) THEN "emit_completed" ELSE "handle"]
              /\ UNCHANGED hist
       \/ /\ ioFaults
          /\ Raise(m, "OSError: read")
    /\ UNCHANGED <<keyVars, ioFaults, managers, fs, stop_flag, chunk_encrypter, log, budget, lastStop>>

Handle(m) ==
    /\ pc[m] = "handle"
    /\ LET r == chunk_handler(sess[m].handler, chunk_encrypter[m], sess[m].chunk)
       IN  IF r.ok
           THEN /\ sess' = [sess EXCEPT ![m].processed = r.val]
                /\ pc' = [pc EXCEPT ![m] = "write"]
                /\ UNCHANGED hist
           ELSE Raise(m, r.err)
    /\ UNCHANGED <<keyVars, ioFaults, managers, fs, stop_flag, chunk_encrypter, log, budget, lastStop>>

Write(m) ==
    /\ pc[m] = "write"
    /\ \/ /\ fs' = [fs EXCEPT ![m][sess[m].out].data = @ \o sess[m].processed]
          /\ pc' = [pc EXCEPT ![m] = "emit_progress"]
          /\ hist' = [hist EXCEPT
                        ![m].written = @ + Len(sess[m].chunk),
                        ![m].writesAfterStop = IF stop_flag[m] THEN @ + 1 ELSE @]
          /\ UNCHANGED sess
       \/ /\ ioFaults
          /\ Raise(m, "OSError: write")
          /\ UNCHANGED fs
    /\ UNCHANGED <<keyVars, ioFaults, managers, stop_flag, chunk_encrypter, log, budget, lastStop>>

IsTerminal(n) == n[1] \in {"operation_completed", "critical_error"}

HasTerminal(m) == \E i \in 1..Len(log[m]) : IsTerminal(log[m][i])

ProgressDeltaOfOutput(m) == Len(sess[m].processed)

ProgressDelta(m) == Len(sess[m].chunk)

EmitProgress(m) ==
    /\ pc[m] = "emit_progress"
    /\ log' = [log EXCEPT ![m] = Append(@, <<"update_processed_bytes", ProgressDelta(m)>>)]
    /\ hist' = [hist EXCEPT ![m].lateProgress =
                  @ \/ hist[m].observed \/ HasTerminal(m)]
    /\ pc' = [pc EXCEPT ![m] = "check"]
    /\ UNCHANGED <<keyVars, ioFaults, managers, fs, stop_flag, chunk_encrypter, sess, budget, lastStop>>

EmitCompleted(m) ==
    /\ pc[m] = "emit_completed"
    /\ log' = [log EXCEPT ![m] = Append(@, <<"operation_completed">>)]
    /\ pc' = [pc EXCEPT ![m] = "exit_with"]
    /\ UNCHANGED <<keyVars, ioFaults, managers, fs, stop_flag, chunk_encrypter, sess, hist, budget,
                   lastStop>>

ExitWith(m) ==
    /\ pc[m] = "exit_with"
    /\ \/ /\ sess[m].exc # None
          /\ sess' = [sess EXCEPT ![m].infile = FALSE, ![m].outfile = FALSE]
          /\ pc' = [pc EXCEPT ![m] = "except"]
          /\ UNCHANGED hist
       \/ /\ sess[m].exc = None
          /\ sess' = [sess EXCEPT ![m] = NoSess]
          /\ pc' = [pc EXCEPT ![m] = "idle"]
          /\ UNCHANGED hist
       \/ /\ ioFaults
          /\ sess' = [sess EXCEPT ![m].infile = FALSE, ![m].outfile = FALSE,
                                  ![m].exc = "OSError: close"]
          /\ pc' = [pc EXCEPT ![m] = "except"]
          /\ hist' = [hist EXCEPT ![m].closeFailed = TRUE]
    /\ UNCHANGED <<keyVars, ioFaults, managers, fs, stop_flag, chunk_encrypter, log, budget, lastStop>>

CatchesOSErrorOnly(e) == e \notin {"SizeError", "DecryptError"}

Catches(e) == TRUE

Except(m) ==
    /\ pc[m] = "except"
    /\ IF Catches(sess[m].exc)
       THEN /\ log' = [log EXCEPT ![m] =
                         Append(@, <<"critical_error", sess[m].in, sess[m].exc>>)]
            /\ UNCHANGED hist
       ELSE /\ hist' = [hist EXCEPT ![m].escaped = TRUE]
            /\ UNCHANGED log
    /\ pc' = [pc EXCEPT ![m] = "idle"]
    /\ sess' = [sess EXCEPT ![m] = NoSess]
    /\ UNCHANGED <<keyVars, ioFaults, managers, fs, stop_flag, chunk_encrypter, budget, lastStop>>

EncryptFile == \E m \in Managers, i, o \in Paths, k \in KeyPairs : encrypt_file(m, i, o, k)

DecryptFile == \E m \in Managers, i, o \in Paths, k \in KeyPairs : decrypt_file(m, i, o, k)

ProcessFileStep ==
    \E m \in Managers :
       \/ OpenIn(m)
       \/ OpenOut(m)
       \/ Check(m)
       \/ Read(m)
       \/ Handle(m)
       \/ Write(m)
       \/ EmitProgress(m)
       \/ EmitCompleted(m)
       \/ ExitWith(m)
       \/ Except(m)


(***************************************************************************)
(* RsaKeyManager.  A passphrase argument is None or a string (a sequence   *)
(* of code points); str.encode("utf-8") turns it into bytes.               *)
(***************************************************************************)
NoPassword == [given |-> FALSE, text |-> <<>>]

Password(text) == [given |-> TRUE, text |-> text]

PasswordTexts == {<<>>, <<115>>, <<233>>}

PasswordArgs == {NoPassword} \cup {Password(t) : t \in PasswordTexts}

RECURSIVE Utf8(_)
Utf8(text) ==
    IF text = <<>> THEN <<>>
    ELSE (IF Head(text) < 128
          THEN <<Head(text)>>
          ELSE <<192 + (Head(text) \div 64), 128 + (Head(text) % 64)>>)
         \o Utf8(Tail(text))

EncodePassword(password) ==
    IF password.given
    THEN [given |-> TRUE, bytes |-> Utf8(password.text)]
    ELSE [given |-> FALSE, bytes |-> <<>>]

Truthy(password) == password.given /\ password.text # <<>>

(***************************************************************************)
(* Keys and PEM documents.  A private key of pair k serialises to a PKCS8  *)
(* document, encrypted under the passphrase bytes or not; a public key to  *)
(* a SubjectPublicKeyInfo document.  Anything else is not a key.           *)
(***************************************************************************)
NoKey == [kind |-> "none", pair |-> None]

PrivateKey(k) == [kind |-> "private", pair |-> k]

PublicKey(k) == [kind |-> "public", pair |-> k]

public_key(private_key) == PublicKey(private_key.pair)

Garbage == [kind |-> "garbage", pair |-> None, encrypted |-> FALSE, pw |-> <<>>]

NoEncryption == [encrypted |-> FALSE, pw |-> <<>>]

BestAvailableEncryption(bytes) == [encrypted |-> TRUE, pw |-> bytes]

private_bytes(private_key, encryption) ==
    [kind |-> "private", pair |-> private_key.pair,
     encrypted |-> encryption.encrypted, pw |-> encryption.pw]

public_bytes(key) ==
    [kind |-> "public", pair |-> key.pair, encrypted |-> FALSE, pw |-> <<>>]

PemTexts ==
    {Garbage}
    \cup {public_bytes(PublicKey(k)) : k \in KeyPairs}
    \cup {private_bytes(PrivateKey(k), NoEncryption) : k \in KeyPairs}
    \cup {private_bytes(PrivateKey(k), BestAvailableEncryption(Utf8(t))) :
            k \in KeyPairs, t \in PasswordTexts \ {<<>>}}

EncodeText(text) == [utf8 |-> text]

NoKeyFile == [exists |-> FALSE, bytes |-> EncodeText(Garbage)]

KeyFile(bytes) == [exists |-> TRUE, bytes |-> bytes]

KeyPaths == {"key.pem", "junk.pem"}

(***************************************************************************)
(* Outcomes: a returned key, or a raised exception with its class and      *)
(* whether its message tells the user what to check.                       *)
(***************************************************************************)
Returned(key) == [ok |-> TRUE, key |-> key, exc |-> None, remediation |-> FALSE]

Raised(exc, remediation) ==
    [ok |-> FALSE, key |-> NoKey, exc |-> exc, remediation |-> remediation]

NoOutcome == [ok |-> TRUE, key |-> NoKey, exc |-> None, remediation |-> FALSE]

(***************************************************************************)
(* serialization.load_pem_private_key and load_pem_public_key of the       *)
(* cryptography library, on the bytes of a PEM document.                   *)
(***************************************************************************)
load_pem_private_key(data, password) ==
    LET pem == data.utf8
    IN  IF pem.kind # "private" THEN Raised("ValueError", FALSE)
        ELSE IF ~pem.encrypted
             THEN IF password.given THEN Raised("TypeError", FALSE)
                                    ELSE Returned(PrivateKey(pem.pair))
             ELSE IF ~password.given \/ password.bytes = <<>>
                  THEN Raised("TypeError", FALSE)
                  ELSE IF password.bytes # pem.pw
                       THEN Raised("ValueError", FALSE)
                       ELSE Returned(PrivateKey(pem.pair))

load_pem_public_key(data) ==
    LET pem == data.utf8
    IN  IF pem.kind = "public" THEN Returned(PublicKey(pem.pair))
                               ELSE Raised("ValueError", FALSE)

(***************************************************************************)
(* The methods of RsaKeyManager, as functions of their arguments and the   *)
(* file they read.                                                         *)
(***************************************************************************)
SaveEncryption(password) ==
    IF Truthy(password) THEN BestAvailableEncryption(Utf8(password.text))
                        ELSE NoEncryption

WrapLoadError(r) == IF r.ok THEN r ELSE Raised("Exception", TRUE)

LoadPrivateKeyFromFile(file, password) ==
    IF ~file.exists THEN Raised("FileNotFoundError", FALSE)
    ELSE WrapLoadError(load_pem_private_key(file.bytes, EncodePassword(password)))

LoadPublicKeyFromFile(file) ==
    IF ~file.exists THEN Raised("FileNotFoundError", FALSE)
    ELSE WrapLoadError(load_pem_public_key(file.bytes))

SerializePublicKey(text) == WrapLoadError(load_pem_public_key(EncodeText(text)))

SerializePrivateKey(text, password) ==
    load_pem_private_key(EncodeText(text), EncodePassword(password))

GeneratePublicKey(key) ==
    IF key.kind # "private" THEN Raised("TypeError", FALSE)
                            ELSE Returned(public_key(key))

NoCall ==
    [op |-> None, path |-> "key.pem", text |-> Garbage, password |-> NoPassword,
     key |-> NoKey, outcome |-> NoOutcome]

NoSave == [done |-> FALSE, password |-> NoPassword, key |-> NoKey]

InitKeyManager ==
    /\ keyfs = [p \in KeyPaths |->
                  IF p = "junk.pem" THEN KeyFile(EncodeText(Garbage)) ELSE NoKeyFile]
    /\ km = NoCall
    /\ saved = [p \in KeyPaths |-> NoSave]

generate_private_key ==
    /\ \E k \in KeyPairs :
          km' = [NoCall EXCEPT !.op = "generate_private_key",
                               !.outcome = Returned(PrivateKey(k))]
    /\ UNCHANGED <<keyfs, saved, fileVars>>

generate_public_key ==
    /\ \E key \in {PrivateKey(k) : k \in KeyPairs} \cup {PublicKey(k) : k \in KeyPairs} :
          km' = [NoCall EXCEPT !.op = "generate_public_key", !.key = key,
                               !.outcome = GeneratePublicKey(key)]
    /\ UNCHANGED <<keyfs, saved, fileVars>>

save_private_key_to_file ==
    /\ \E path \in KeyPaths, password \in PasswordArgs,
          arg \in {NoKey} \cup {PrivateKey(k) : k \in KeyPairs}, fresh \in KeyPairs :
          LET private_key == IF arg.kind = "none" THEN PrivateKey(fresh) ELSE arg
              private_pem == private_bytes(private_key, SaveEncryption(password))
          IN  /\ keyfs' = [keyfs EXCEPT ![path] = KeyFile(EncodeText(private_pem))]
              /\ km' = [NoCall EXCEPT !.op = "save_private_key_to_file",
                                      !.path = path, !.password = password,
                                      !.key = private_key]
              /\ saved' = [saved EXCEPT ![path] =
                             [done |-> TRUE, password |-> password,
                              key |-> private_key]]
    /\ UNCHANGED fileVars

save_public_key_to_file ==
    /\ \E path \in KeyPaths, k \in KeyPairs :
          /\ keyfs' = [keyfs EXCEPT
                         ![path] = KeyFile(EncodeText(public_bytes(PublicKey(k))))]
          /\ km' = [NoCall EXCEPT !.op = "save_public_key_to_file",
                                  !.path = path, !.key = PublicKey(k)]
          /\ saved' = [saved EXCEPT ![path] = NoSave]
    /\ UNCHANGED fileVars

load_private_key_from_file ==
    /\ \E path \in KeyPaths, password \in PasswordArgs :
          km' = [NoCall EXCEPT !.op = "load_private_key_from_file",
                               !.path = path, !.password = password,
                               !.outcome = LoadPrivateKeyFromFile(keyfs[path], password)]
    /\ UNCHANGED <<keyfs, saved, fileVars>>

load_public_key_from_file ==
    /\ \E path \in KeyPaths :
          km' = [NoCall EXCEPT !.op = "load_public_key_from_file", !.path = path,
                               !.outcome = LoadPublicKeyFromFile(keyfs[path])]
    /\ UNCHANGED <<keyfs, saved, fileVars>>

serialize_public_key ==
    /\ \E text \in PemTexts :
          km' = [NoCall EXCEPT !.op = "serialize_public_key", !.text = text,
                               !.outcome = SerializePublicKey(text)]
    /\ UNCHANGED <<keyfs, saved, fileVars>>

serialize_private_key ==
    /\ \E text \in PemTexts, password \in PasswordArgs :
          km' = [NoCall EXCEPT !.op = "serialize_private_key", !.text = text,
                               !.password = password,
                               !.outcome = SerializePrivateKey(text, password)]
    /\ UNCHANGED <<keyfs, saved, fileVars>>

KeyManagerNext ==
    \/ generate_private_key
    \/ generate_public_key
    \/ save_private_key_to_file
    \/ save_public_key_to_file
    \/ load_private_key_from_file
    \/ load_public_key_from_file
    \/ serialize_public_key
    \/ serialize_private_key

Init == InitWith({1}, MaxSessions, Contents, TRUE) /\ InitKeyManager

ParallelContents == {[i \in 1..(ENCRYPTION_CHUNK + 1) |-> 1]}

InitParallel == InitWith({1, 2}, 1, ParallelContents, FALSE) /\ InitKeyManager

InitKeys == InitWith({}, 0, {<<>>}, FALSE) /\ InitKeyManager

FileManagerNext ==
    \/ StopProcessEmit
    \/ EncryptFile
    \/ DecryptFile
    \/ ProcessFileStep

Next == FileManagerNext \/ KeyManagerNext

(***************************************************************************)
(* FileManager and RsaKeyManager share no state: the claims about one are  *)
(* checked with the other at rest.  SpecParallel runs two managers, one    *)
(* session each, side by side.                                             *)
(***************************************************************************)
Spec == Init /\ [][Next]_vars

SpecFileManager == Init /\ [][FileManagerNext]_vars

SpecParallel == InitParallel /\ [][FileManagerNext]_vars

SpecKeyManager == InitKeys /\ [][KeyManagerNext]_vars

(***************************************************************************)
(* What the claims speak of.                                               *)
(***************************************************************************)
Ended(m) == hist[m].started /\ pc[m] = "idle"

Completed(m) == \E i \in 1..Len(log[m]) : log[m][i][1] = "operation_completed"

Terminals(m) == {i \in 1..Len(log[m]) : IsTerminal(log[m][i])}

Progress(m) == SelectSeq(log[m], LAMBDA n : n[1] = "update_processed_bytes")

RECURSIVE Deltas(_)
Deltas(s) == IF s = <<>> THEN <<>> ELSE <<Head(s)[2]>> \o Deltas(Tail(s))

RECURSIVE ChunkLengths(_, _)
ChunkLengths(n, size) ==
    IF n <= 0 THEN <<>> ELSE <<Min(n, size)>> \o ChunkLengths(n - size, size)

RECURSIVE EncryptAll(_, _)
EncryptAll(F, k) ==
    IF F = <<>> THEN <<>>
    ELSE LET n == Min(Len(F), ENCRYPTION_CHUNK)
         IN  encrypt_chunk(ChunkEncrypter(k, None), SubSeq(F, 1, n)).val
                \o EncryptAll(SubSeq(F, n + 1, Len(F)), k)

IsPrefix(s, t) == Len(s) <= Len(t) /\ s = SubSeq(t, 1, Len(s))

CleanlyCompleted(m) ==
    Ended(m) /\ log[m] # <<>> /\ log[m][Len(log[m])] = <<"operation_completed">>

(* C1: a session that ends without having observed the stop flag emitted    *)
(* exactly one terminal notification (operation_completed or               *)
(* critical_error); one that ended because it observed the flag emitted    *)
(* none.                                                                   *)
C1_ExactlyOneTerminal ==
    \A m \in managers :
       Ended(m) =>
          Cardinality(Terminals(m)) = IF hist[m].observed THEN 0 ELSE 1

(* C2 as stated: once the flag is set while the session runs, at most one   *)
(* more chunk is written and operation_completed is never emitted.         *)
C2_StopNeverCompletes ==
    \A m \in managers :
       hist[m].stopPc # None =>
          /\ hist[m].writesAfterStop <= 1
          /\ ~Completed(m)

(* C2 as amended: at most one chunk is written after the flag is set, and   *)
(* operation_completed follows a flag set during the session only when the *)
(* flag was set after the session's last flag check, with the whole input  *)
(* already consumed (the end-of-input read or the emission was pending).   *)
C2_StopHaltsWithinOneChunk ==
    \A m \in managers :
       /\ hist[m].writesAfterStop <= 1
       /\ hist[m].observed => ~Completed(m)
       /\ (hist[m].stopPc # None /\ Completed(m)) =>
             /\ hist[m].stopPc \in {"read", "emit_completed"}
             /\ hist[m].stopAtEnd
             /\ ~hist[m].observed

C2_Witness ==
    \E m \in managers :
       /\ Ended(m)
       /\ hist[m].stopPc = "handle"
       /\ hist[m].writesAfterStop = 1
       /\ hist[m].observed
       /\ hist[m].written < Len(hist[m].input.data)

(* C3: an error raised by opening either file, reading, the chunk handler   *)
(* or writing never leaves _process_file; the session ends with a single   *)
(* critical_error carrying the session's input path and the message of the *)
(* exception caught, and without operation_completed.                      *)
C3_ErrorsBecomeNotifications ==
    \A m \in managers :
       /\ ~hist[m].escaped
       /\ (Ended(m) /\ hist[m].stepError # None) =>
             /\ ~Completed(m)
             /\ Cardinality(Terminals(m)) = 1
             /\ log[m][Len(log[m])] =
                   <<"critical_error", hist[m].in,
                     IF hist[m].closeFailed THEN "OSError: close"
                                            ELSE hist[m].stepError>>

C3_Witness ==
    \E m \in managers :
       /\ Ended(m)
       /\ hist[m].stepError = "DecryptError"
       /\ log[m] = <<<<"critical_error", "enc", "DecryptError">>>>

(* C4: an encrypt_file session that runs to completion leaves in the output *)
(* the blocks of the input's consecutive ENCRYPTION_CHUNK-byte chunks, in  *)
(* order and nothing else (ceil(|F| / ENCRYPTION_CHUNK) blocks); a         *)
(* decrypt_file session that runs to completion on such an output with the *)
(* matching key leaves a file equal to F.                                  *)
C4_RoundTrip ==
    \A m \in managers :
       (CleanlyCompleted(m) /\ hist[m].in # hist[m].out) =>
          LET F == hist[m].input.data
              out == fs[m][hist[m].out].data
          IN  /\ hist[m].handler = "encrypt_chunk" =>
                    /\ out = EncryptAll(F, hist[m].key)
                    /\ Len(out) = ((Len(F) + ENCRYPTION_CHUNK - 1) \div ENCRYPTION_CHUNK)
                                     * DECRYPTION_CHUNK
              /\ hist[m].handler = "decrypt_chunk" =>
                    \A G \in Contents : F = EncryptAll(G, hist[m].key) => out = G

C4_Witness ==
    \E m \in managers :
       /\ CleanlyCompleted(m)
       /\ hist[m].in # hist[m].out
       /\ hist[m].handler = "decrypt_chunk"
       /\ \E G \in Contents :
             /\ Len(G) = ENCRYPTION_CHUNK + 1
             /\ hist[m].input.data = EncryptAll(G, hist[m].key)
             /\ fs[m][hist[m].out].data = G

(* C5: update_processed_bytes is emitted once per chunk, after the chunk's  *)
(* output was written, in chunk order and with the input chunk's length;   *)
(* the deltas are positive and add up to the input bytes whose output was  *)
(* written, to the input length at operation_completed; none is emitted    *)
(* after a terminal notification or after the flag was observed.           *)
C5_ProgressFollowsChunks ==
    \A m \in managers :
       hist[m].started =>
          LET deltas == Deltas(Progress(m))
              pending == IF pc[m] = "emit_progress" THEN Len(sess[m].chunk) ELSE 0
          IN  /\ \A i \in 1..Len(deltas) : deltas[i] > 0
              /\ SumSeq(deltas) + pending = hist[m].written
              /\ hist[m].in # hist[m].out =>
                    IsPrefix(deltas, ChunkLengths(Len(hist[m].input.data),
                                                  IF hist[m].handler = "encrypt_chunk"
                                                  THEN ENCRYPTION_CHUNK
                                                  ELSE DECRYPTION_CHUNK))
              /\ Completed(m) => SumSeq(deltas) = Len(fs[m][hist[m].in].data)
              /\ ~hist[m].lateProgress
              /\ \A i, j \in 1..Len(log[m]) :
                    (i < j /\ IsTerminal(log[m][i])) =>
                       log[m][j][1] # "update_processed_bytes"

C5_Witness ==
    \E m \in managers :
       /\ CleanlyCompleted(m)
       /\ hist[m].handler = "decrypt_chunk"
       /\ Deltas(Progress(m)) = <<DECRYPTION_CHUNK, DECRYPTION_CHUNK>>

(* C6: save_private_key_to_file writes the key unencrypted only when no     *)
(* passphrase is supplied; for every passphrase supplied the key written   *)
(* is encrypted under that passphrase.                                     *)
C6_EncryptedUnlessNoPassphrase ==
    km.op = "save_private_key_to_file" =>
       LET pem == keyfs[km.path].bytes.utf8
       IN  /\ pem.encrypted <=> km.password.given
           /\ pem.encrypted => pem.pw = Utf8(km.password.text)

(* C7: after save_private_key_to_file(path, p, k), loading path with p      *)
(* returns a key with k's public key, and loading it with any other        *)
(* passphrase (absent included) fails with the format error.               *)
C7_SaveThenLoad ==
    (km.op = "load_private_key_from_file" /\ saved[km.path].done) =>
       IF km.password = saved[km.path].password
       THEN /\ km.outcome.ok
            /\ km.outcome.key.kind = "private"
            /\ public_key(km.outcome.key) = public_key(saved[km.path].key)
       ELSE /\ ~km.outcome.ok
            /\ km.outcome.exc = "Exception"

(* C8: parsing a PEM text has the outcome of loading a file holding that    *)
(* text: the same key, or a failure of the same format-error kind with a   *)
(* message telling the user what to check, for both parsers.               *)
SameOutcome(a, b) ==
    /\ a.ok = b.ok
    /\ a.key = b.key
    /\ ~a.ok => /\ a.exc = "Exception"
                /\ b.exc = "Exception"
                /\ a.remediation
                /\ b.remediation

C8_ParseLikeLoad ==
    /\ km.op = "serialize_private_key" =>
          SameOutcome(km.outcome,
                      LoadPrivateKeyFromFile(KeyFile(EncodeText(km.text)), km.password))
    /\ km.op = "serialize_public_key" =>
          SameOutcome(km.outcome, LoadPublicKeyFromFile(KeyFile(EncodeText(km.text))))

(* C9: every session starts with the flag unset, and a session on a         *)
(* readable input during which no stop is requested and nothing fails      *)
(* processes every chunk and ends with operation_completed.                *)
C9_FlagScopedToSession ==
    \A m \in managers :
       hist[m].started =>
          /\ ~hist[m].flagAtStart
          /\ (Ended(m) /\ hist[m].input.exists /\ hist[m].stopPc = None
                /\ hist[m].stepError = None /\ ~hist[m].closeFailed) =>
                /\ Completed(m)
                /\ hist[m].in # hist[m].out =>
                      hist[m].written = Len(hist[m].input.data)

(* C10: of two sessions running side by side, a stop request that cancels   *)
(* one does not set the other's flag, and each session's chunks go through *)
(* the cipher built at its start.                                          *)
C10_IndependentSessions ==
    /\ \A m, n \in managers :
          (m # n /\ hist[m].stopPc # None /\ hist[n].stopPc # None) =>
             ~(m \in lastStop /\ n \in lastStop)
    /\ \A m \in managers :
          pc[m] # "idle" =>
             chunk_encrypter[m] = IF hist[m].handler = "encrypt_chunk"
                                  THEN ChunkEncrypter(hist[m].key, None)
                                  ELSE ChunkEncrypter(None, hist[m].key)

====
